---- MODULE Spec2Model ----
(***************************************************************************)
(* Model of backend/main.py of the 60-Second Script Spinner API: the three *)
(* request handlers (generate_script, generate_variation, get_suggestions),*)
(* the provider client resolver, the mock content generators and the       *)
(* keyword matcher behind the fallback suggestions.                        *)
(*                                                                         *)
(* Text that the code inspects character by character (the query, the     *)
(* provider's suggestion text) is a sequence of one-character strings.     *)
(* Text that the code only passes along (scripts, suggestion items,        *)
(* messages) is a sequence of string pieces, one per literal part or       *)
(* interpolated value of the f-string that builds it.                      *)
(***************************************************************************)
EXTENDS Integers, Sequences, FiniteSets, TLC

VARIABLES
    client,         \* module-level default client (main.py:59-61)
    DEFAULT_MODEL,  \* module-level default model (main.py:56)
    reqs,           \* one record per request being handled
    probe,          \* last answer of the /health probe
    fb              \* a direct call of generate_fallback_suggestions

vars == <<client, DEFAULT_MODEL, reqs, probe, fb>>

\* ------------------------------------------------------------- bounds
\* Largest number of fragments a query is assembled from.
MaxFrags == 2
\* Largest requested limit (the smallest is -1: the schema takes any int).
MaxLimit == 7
\* Largest length of a provider's suggestion text, in characters.
MaxText == 3
\* Number of requests handled concurrently in SpecConc.
NReq == 2

\* ------------------------------------------------------------- strings
UpperCase == <<"A","B","C","D","E","F","G","H","I","J","K","L","M",
               "N","O","P","Q","R","S","T","U","V","W","X","Y","Z">>
LowerCase == <<"a","b","c","d","e","f","g","h","i","j","k","l","m",
               "n","o","p","q","r","s","t","u","v","w","x","y","z">>

\* str.lower() on one character.
lower_char(c) ==
    IF \E i \in 1..Len(UpperCase) : UpperCase[i] = c
    THEN LowerCase[CHOOSE i \in 1..Len(UpperCase) : UpperCase[i] = c]
    ELSE c

\* str.lower()
lower(s) == [i \in 1..Len(s) |-> lower_char(s[i])]

\* Python's `k in s` on strings: k occurs in s as a contiguous substring.
contains(s, k) ==
    \E i \in 1..(Len(s) - Len(k) + 1) : SubSeq(s, i, i + Len(k) - 1) = k

\* Python's s[:n], for any integer n (a negative n counts from the end).
slice_to(s, n) ==
    IF n >= 0
    THEN SubSeq(s, 1, IF n < Len(s) THEN n ELSE Len(s))
    ELSE SubSeq(s, 1, IF Len(s) + n > 0 THEN Len(s) + n ELSE 0)

is_space(c) == c \in {" ", "\n"}

RECURSIVE lstrip(_)
lstrip(s) == IF s # <<>> /\ is_space(Head(s)) THEN lstrip(Tail(s)) ELSE s

RECURSIVE rstrip(_)
rstrip(s) ==
    IF s # <<>> /\ is_space(s[Len(s)]) THEN rstrip(SubSeq(s, 1, Len(s) - 1)) ELSE s

\* str.strip()
strip(s) == rstrip(lstrip(s))

\* str.split('\n'): the pieces between newlines, empty pieces included.
RECURSIVE split_lines(_)
split_lines(s) ==
    IF \E i \in 1..Len(s) : s[i] = "\n"
    THEN LET i == CHOOSE j \in 1..Len(s) :
                      s[j] = "\n" /\ \A k \in 1..(j - 1) : s[k] # "\n"
         IN  <<SubSeq(s, 1, i - 1)>> \o split_lines(SubSeq(s, i + 1, Len(s)))
    ELSE <<s>>

\* [s.strip() for s in lines if s.strip()]
RECURSIVE stripped_nonempty(_)
stripped_nonempty(lines) ==
    IF lines = <<>> THEN <<>>
    ELSE (IF strip(Head(lines)) # <<>> THEN <<strip(Head(lines))>> ELSE <<>>)
         \o stripped_nonempty(Tail(lines))

\* ------------------------------------------------------------- suggestion catalog
\* Declaration order of suggestions_db (dicts iterate in insertion order).
Categories == <<"cooking", "fitness", "productivity", "technology", "business", "lifestyle">>

suggestions_db == [
    cooking |->
        <<"5-minute breakfast recipes for busy mornings",
          "How to meal prep like a pro",
          "Kitchen hacks that save time and money",
          "Cooking mistakes everyone makes",
          "Essential spices every kitchen needs",
          "One-pot meals for easy cleanup">>,
    fitness |->
        <<"10-minute morning workout routine",
          "How to stay motivated to exercise",
          "Bodyweight exercises for small spaces",
          "Stretches to do at your desk",
          "Building healthy habits that stick",
          "Pre and post-workout nutrition tips">>,
    productivity |->
        <<"Time management techniques that actually work",
          "How to organize your workspace for focus",
          "Digital detox strategies for better focus",
          "Morning routines of successful people",
          "Beating procrastination once and for all",
          "Tools to automate your daily tasks">>,
    technology |->
        <<"Essential phone apps everyone should have",
          "How to protect your privacy online",
          "Tech shortcuts to save time daily",
          "Setting up the perfect home office",
          "Troubleshooting common tech problems",
          "Future tech trends to watch">>,
    business |->
        <<"Starting a side hustle with no money",
          "Networking tips for introverts",
          "How to negotiate your salary",
          "Building a personal brand online",
          "Time management for entrepreneurs",
          "Common business mistakes to avoid">>,
    lifestyle |->
        <<"Minimalism tips for beginners",
          "How to develop a reading habit",
          "Creating a budget that works",
          "Self-care routines for busy people",
          "Organizing your home in 30 minutes",
          "Building confidence in social situations">>]

general_suggestions ==
    <<"How to master any skill in 30 days",
      "Life hacks that actually work",
      "Common mistakes beginners make",
      "Essential tools every beginner needs",
      "Quick tips for immediate results",
      "Secrets professionals don't tell you">>

\* The category names as text, as `category in query_lower` reads them.
category_name == [
    cooking |-> <<"c","o","o","k","i","n","g">>,
    fitness |-> <<"f","i","t","n","e","s","s">>,
    productivity |-> <<"p","r","o","d","u","c","t","i","v","i","t","y">>,
    technology |-> <<"t","e","c","h","n","o","l","o","g","y">>,
    business |-> <<"b","u","s","i","n","e","s","s">>,
    lifestyle |-> <<"l","i","f","e","s","t","y","l","e">>]

category_keywords == [
    cooking |->
       {<<"c","o","o","k">>,
        <<"r","e","c","i","p","e">>,
        <<"f","o","o","d">>,
        <<"k","i","t","c","h","e","n">>,
        <<"m","e","a","l">>,
        <<"e","a","t">>,
        <<"c","h","e","f">>,
        <<"b","a","k","e">>},
    fitness |->
       {<<"w","o","r","k","o","u","t">>,
        <<"e","x","e","r","c","i","s","e">>,
        <<"f","i","t","n","e","s","s">>,
        <<"h","e","a","l","t","h">>,
        <<"g","y","m">>,
        <<"r","u","n">>,
        <<"y","o","g","a">>,
        <<"d","i","e","t">>},
    productivity |->
       {<<"p","r","o","d","u","c","t","i","v","e">>,
        <<"o","r","g","a","n","i","z","e">>,
        <<"t","i","m","e">>,
        <<"w","o","r","k">>,
        <<"f","o","c","u","s">>,
        <<"h","a","b","i","t">>,
        <<"e","f","f","i","c","i","e","n","t">>},
    technology |->
       {<<"t","e","c","h">>,
        <<"c","o","m","p","u","t","e","r">>,
        <<"p","h","o","n","e">>,
        <<"a","p","p">>,
        <<"d","i","g","i","t","a","l">>,
        <<"o","n","l","i","n","e">>,
        <<"s","o","f","t","w","a","r","e">>},
    business |->
       {<<"b","u","s","i","n","e","s","s">>,
        <<"m","o","n","e","y">>,
        <<"c","a","r","e","e","r">>,
        <<"j","o","b">>,
        <<"e","n","t","r","e","p","r","e","n","e","u","r">>,
        <<"s","t","a","r","t","u","p">>,
        <<"f","i","n","a","n","c","e">>},
    lifestyle |->
       {<<"l","i","f","e">>,
        <<"h","o","m","e">>,
        <<"s","t","y","l","e">>,
        <<"p","e","r","s","o","n","a","l">>,
        <<"s","e","l","f">>,
        <<"d","a","i","l","y">>,
        <<"r","o","u","t","i","n","e">>}]

\* ------------------------------------------------------------- inputs
\* Pieces a query is assembled from: category names, keywords, words that
\* hold a keyword inside them, upper-case spellings and neutral filler.
Fragments == {
    <<"c","o","o","k","i","n","g">>,
    <<"f","i","t","n","e","s","s">>,
    <<"p","r","o","d","u","c","t","i","v","i","t","y">>,
    <<"t","e","c","h","n","o","l","o","g","y">>,
    <<"b","u","s","i","n","e","s","s">>,
    <<"l","i","f","e","s","t","y","l","e">>,
    <<"B","u","s","i","n","e","s","s">>,
    <<"C","O","O","K">>,
    <<"h","e","a","l","t","h">>,
    <<"a","p","p">>,
    <<"m","o","n","e","y">>,
    <<"d","a","i","l","y">>,
    <<"i","n","t","r","o">>,
    <<" ">>,
    <<"e">>,
    <<"a","t">>}

\* Queries: every concatenation of at most n fragments.
RECURSIVE QueriesOf(_)
QueriesOf(n) ==
    IF n = 0 THEN {<<>>}
    ELSE LET shorter == QueriesOf(n - 1)
         IN  shorter \cup {q \o f : q \in shorter, f \in Fragments}

Queries == QueriesOf(MaxFrags)

\* limit: int = 6 (main.py:40); the schema puts no lower bound on it.
Limits == (0 - 1)..MaxLimit

\* ------------------------------------------------------------- keyword matcher
\* The test generate_fallback_suggestions applies to one category, with the
\* query already lower-cased (main.py:436-442).
category_matches(category, query_lower) ==
    \/ contains(query_lower, category_name[category])
    \/ \E keyword \in category_keywords[category] : contains(query_lower, keyword)

\* The loop of main.py:435-445 from the i-th category on: the list of the first
\* category whose name or one of whose keywords occurs in the query, else the
\* general list.
RECURSIVE matching_list(_, _)
matching_list(query_lower, i) ==
    IF i > Len(Categories) THEN general_suggestions
    ELSE IF category_matches(Categories[i], query_lower)
         THEN suggestions_db[Categories[i]]
         ELSE matching_list(query_lower, i + 1)

\* generate_fallback_suggestions matching on the query as typed.
generate_fallback_suggestions_as_typed(query, limit) ==
    slice_to(matching_list(query, 1), limit)

generate_fallback_suggestions(query, limit) ==
    slice_to(matching_list(lower(query), 1), limit)

\* ------------------------------------------------------------- provider clients
\* Python's None, as a client value.
None == [api_key |-> "", base_url |-> ""]

\* OpenAI(api_key=...) and OpenAI(api_key=..., base_url=...): construction makes
\* no network call.
OpenAI(api_key, base_url) == [api_key |-> api_key, base_url |-> base_url]

OpenAIBaseUrl == "https://api.openai.com/v1"
OpenRouterBaseUrl == "https://openrouter.ai/api/v1"

Providers == {"openai", "openrouter", "anthropic", "google", "mistral"}
ApiKeys == {"", "sk-request"}
Models == {"gpt-4", "gpt-3.5-turbo"}
EnvApiKey == "sk-env"

\* get_ai_client with the provider test reduced to openrouter-or-not: every
\* other identifier, the placeholders included, gets the primary endpoint.
get_ai_client_any_provider(provider, api_key) ==
    IF api_key = "" THEN None
    ELSE IF provider = "openrouter" THEN OpenAI(api_key, OpenRouterBaseUrl)
    ELSE OpenAI(api_key, OpenAIBaseUrl)

get_ai_client(provider, api_key) ==
    IF api_key = "" THEN None
    ELSE IF provider = "openai" THEN OpenAI(api_key, OpenAIBaseUrl)
    ELSE IF provider = "openrouter" THEN OpenAI(api_key, OpenRouterBaseUrl)
    ELSE IF provider = "anthropic" THEN None
    ELSE IF provider = "google" THEN None
    ELSE None

\* Python's `a or b` on clients: None is falsy, a client object is truthy.
or_else(a, b) == IF a # None THEN a ELSE b

\* ------------------------------------------------------------- mock content
Styles == {"Authoritative", "Humorous", "Casual", "Formal", "Dramatic"}
VariationTypes == {"shorter", "engaging", "social", "longer"}

style_variations == [
    Authoritative |->
        [hook |-> "Think you need expensive equipment to make cafe-quality coffee? Think again!",
         tone |-> "confident and expert"],
    Humorous |->
        [hook |-> "My wallet used to cry every time I bought coffee equipment... until I discovered this!",
         tone |-> "fun and relatable"],
    Casual |->
        [hook |-> "Hey coffee lovers! Want to know the secret to amazing home brewing?",
         tone |-> "friendly and approachable"],
    Formal |->
        [hook |-> "Today I'll demonstrate the three essential tools for professional-quality home brewing.",
         tone |-> "structured and professional"]]

\* The f-string of main.py:296-310: the style's hook between two fixed parts.
generate_mock_script(request) ==
    LET style_info == IF request.style \in DOMAIN style_variations
                      THEN style_variations[request.style]
                      ELSE style_variations["Casual"]
    IN  <<"HOOK: ", style_info.hook,
          " PROBLEM: Most people believe great coffee requires a $500 espresso machine and years of training. SOLUTION: ... PROOF: ... CALL TO ACTION: Follow for more coffee tips ... Total investment: Under $100. Total game-changer: Priceless.">>

variations == [
    shorter  |-> <<"QUICK TIP: Skip the $500 espresso machine! ... Follow for more money-saving coffee hacks!">>,
    engaging |-> <<"COFFEE LOVERS: This will blow your mind! ... Follow @coffeehacks for daily brewing secrets!">>,
    social   |-> <<"POV: You just made better coffee than Starbucks with $90 worth of equipment ... #BaristaLife">>]

generate_mock_variation(variation_type) ==
    IF variation_type \in DOMAIN variations
    THEN variations[variation_type]
    ELSE variations["shorter"]

\* ------------------------------------------------------------- requests and responses
\* One record shape for the three request schemas (main.py:22-43); a field an
\* operation's schema lacks holds the empty value.
Request(op, provider, api_key, model, style, variation_type, query, limit) ==
    [op |-> op, provider |-> provider, api_key |-> api_key, model |-> model,
     style |-> style, variation_type |-> variation_type, query |-> query,
     limit |-> limit]

NoRequest == Request("", "", "", "", "", "", <<>>, 0)

\* ScriptResponse and SuggestionResponse (main.py:45-52) in one shape.
Response(script, suggestions, success, message) ==
    [script |-> script, suggestions |-> suggestions, success |-> success,
     message |-> message]

NoResponse == Response(<<>>, <<>>, FALSE, <<>>)

\* What the remote completion call does: it returns a response with text, it
\* raises, it returns no choices, or it returns a choice whose content is None.
Outcome(kind, text, err) == [kind |-> kind, text |-> text, err |-> err]

NoOutcome == Outcome("", <<>>, "")

\* A remote call as the endpoint sees it.
Call(cl, model, max_tokens) == [client |-> cl, model |-> model, max_tokens |-> max_tokens]

ScriptMaxTokens == 1000
VariationMaxTokens == 800
SuggestionMaxTokens == 300

\* str(e) of the exception the try block ends in.
exception_text(op, outcome) ==
    IF outcome.kind = "raise" THEN outcome.err
    ELSE IF outcome.kind = "no_choices" THEN "list index out of range"
    ELSE IF op = "get_suggestions" THEN "'NoneType' object has no attribute 'strip'"
    ELSE "1 validation error for ScriptResponse"

IdleSlot ==
    [pc |-> "idle", req |-> NoRequest, resolved |-> None, ai_client |-> None,
     calls |-> <<>>, outcome |-> NoOutcome, result |-> NoResponse]

NoProbe == [status |-> "", openai_configured |-> FALSE, default_model |-> ""]

FbOff == [pc |-> "off", query |-> <<>>, limit |-> 0, result |-> <<>>]

\* ------------------------------------------------------------- request inputs
ScriptRequests ==
    {Request("generate_script", p, k, m, s, "", <<>>, 0) :
        p \in Providers, k \in ApiKeys, m \in Models, s \in Styles}

VariationRequests ==
    {Request("generate_variation", p, k, m, "", v, <<>>, 0) :
        p \in Providers, k \in ApiKeys, m \in Models, v \in VariationTypes}

\* Queries of the requests that go through the handler: one that hits a
\* keyword, one that hits nothing, one in upper case.
HandlerQueries == {<<"a","p","p">>, <<"i","n","t","r","o">>, <<"C","O","O","K">>}

SuggestionRequests ==
    {Request("get_suggestions", p, k, m, "", "", q, l) :
        p \in Providers, k \in ApiKeys, m \in Models, q \in HandlerQueries, l \in Limits}

Errors == {"Request timed out.", "Incorrect API key provided"}

FailureOutcomes ==
    {Outcome("raise", <<>>, e) : e \in Errors}
        \cup {Outcome("no_choices", <<>>, ""), Outcome("null_content", <<>>, "")}

\* Provider text of a script or a variation: passed along whole.
ScriptTexts == {<<"provider script">>, <<"">>}

ScriptOutcomes == {Outcome("text", t, "") : t \in ScriptTexts} \cup FailureOutcomes

\* Provider text of suggestions: the characters the handler splits and strips.
TextChars == {"a", " ", "\n"}

SuggestionTexts == UNION {[1..n -> TextChars] : n \in 0..MaxText}

SuggestionOutcomes == {Outcome("text", t, "") : t \in SuggestionTexts} \cup FailureOutcomes

\* ------------------------------------------------------------- generate_script
\* main.py:105-108
script_no_client_response(request) ==
    Response(generate_mock_script(request), <<>>, TRUE,
             <<"Generated using mock data (no API key provided)">>)

\* The except branch reporting the failure to the caller.
script_completion_response_failing(request, outcome) ==
    IF outcome.kind = "text"
    THEN Response(outcome.text, <<>>, TRUE,
                  <<"Generated using ", request.provider, "/", request.model>>)
    ELSE Response(<<>>, <<>>, FALSE,
                  <<"Error generating script: ", exception_text(request.op, outcome)>>)

\* The except branch falling back to the default style's mock script.
script_completion_response_default_style(request, outcome) ==
    IF outcome.kind = "text"
    THEN Response(outcome.text, <<>>, TRUE,
                  <<"Generated using ", request.provider, "/", request.model>>)
    ELSE Response(generate_mock_script([request EXCEPT !.style = "Casual"]), <<>>, TRUE,
                  <<"Using fallback generation due to: ",
                    exception_text(request.op, outcome)>>)

\* main.py:127-138: what the handler returns once the remote call is over.
script_completion_response(request, outcome) ==
    IF outcome.kind = "text"
    THEN Response(outcome.text, <<>>, TRUE,
                  <<"Generated using ", request.provider, "/", request.model>>)
    ELSE Response(generate_mock_script(request), <<>>, TRUE,
                  <<"Using fallback generation due to: ",
                    exception_text(request.op, outcome)>>)

\* generate_script keeping the client it resolved in the module-level name.
generate_script_caching(i, request) ==
    /\ reqs[i].pc = "idle"
    /\ LET resolved == get_ai_client(request.provider, request.api_key)
           ai_client == or_else(resolved, client)
       IN  /\ reqs' = [reqs EXCEPT ![i] =
                 IF ai_client = None
                 THEN [IdleSlot EXCEPT !.pc = "done", !.req = request,
                                       !.resolved = resolved,
                                       !.result = script_no_client_response(request)]
                 ELSE [IdleSlot EXCEPT !.pc = "calling", !.req = request,
                                       !.resolved = resolved, !.ai_client = ai_client,
                                       !.calls = <<Call(ai_client, request.model,
                                                        ScriptMaxTokens)>>]]
           /\ client' = ai_client
    /\ UNCHANGED <<DEFAULT_MODEL, probe, fb>>

\* The handler up to its remote call (main.py:99-125).
generate_script(i, request) ==
    /\ reqs[i].pc = "idle"
    /\ LET resolved == get_ai_client(request.provider, request.api_key)
           ai_client == or_else(resolved, client)
       IN  reqs' = [reqs EXCEPT ![i] =
              IF ai_client = None
              THEN [IdleSlot EXCEPT !.pc = "done", !.req = request,
                                    !.resolved = resolved,
                                    !.result = script_no_client_response(request)]
              ELSE [IdleSlot EXCEPT !.pc = "calling", !.req = request,
                                    !.resolved = resolved, !.ai_client = ai_client,
                                    !.calls = <<Call(ai_client, request.model,
                                                     ScriptMaxTokens)>>]]
    /\ UNCHANGED <<client, DEFAULT_MODEL, probe, fb>>

\* script_completed calling the provider a second time after a failure.
script_completed_retry(i, outcome) ==
    /\ reqs[i].pc = "calling"
    /\ reqs[i].req.op = "generate_script"
    /\ reqs' = IF outcome.kind # "text" /\ Len(reqs[i].calls) < 2
               THEN [reqs EXCEPT ![i].calls = Append(@, @[1])]
               ELSE [reqs EXCEPT ![i].pc = "done", ![i].outcome = outcome,
                                 ![i].result =
                                     script_completion_response(reqs[i].req, outcome)]
    /\ UNCHANGED <<client, DEFAULT_MODEL, probe, fb>>

\* The handler from the end of its remote call on (main.py:127-138).
script_completed(i, outcome) ==
    /\ reqs[i].pc = "calling"
    /\ reqs[i].req.op = "generate_script"
    /\ reqs' = [reqs EXCEPT ![i].pc = "done", ![i].outcome = outcome,
                            ![i].result = script_completion_response(reqs[i].req, outcome)]
    /\ UNCHANGED <<client, DEFAULT_MODEL, probe, fb>>

\* ------------------------------------------------------------- generate_variation
\* main.py:144-147
variation_no_client_response(request) ==
    Response(generate_mock_variation(request.variation_type), <<>>, TRUE,
             <<"Generated using mock data (no OpenAI API key provided)">>)

\* main.py:166-177
variation_completion_response(request, outcome) ==
    IF outcome.kind = "text"
    THEN Response(outcome.text, <<>>, TRUE,
                  <<"Variation generated using ", DEFAULT_MODEL>>)
    ELSE Response(generate_mock_variation(request.variation_type), <<>>, TRUE,
                  <<"Using fallback generation due to: ",
                    exception_text(request.op, outcome)>>)

\* The handler up to its remote call (main.py:141-164): it reads the module's
\* client and DEFAULT_MODEL, never the request's provider, api_key or model.
generate_variation(i, request) ==
    /\ reqs[i].pc = "idle"
    /\ reqs' = [reqs EXCEPT ![i] =
          IF client = None
          THEN [IdleSlot EXCEPT !.pc = "done", !.req = request,
                                !.result = variation_no_client_response(request)]
          ELSE [IdleSlot EXCEPT !.pc = "calling", !.req = request,
                                !.ai_client = client,
                                !.calls = <<Call(client, DEFAULT_MODEL,
                                                 VariationMaxTokens)>>]]
    /\ UNCHANGED <<client, DEFAULT_MODEL, probe, fb>>

\* main.py:166-177
variation_completed(i, outcome) ==
    /\ reqs[i].pc = "calling"
    /\ reqs[i].req.op = "generate_variation"
    /\ reqs' = [reqs EXCEPT ![i].pc = "done", ![i].outcome = outcome,
                            ![i].result = variation_completion_response(reqs[i].req, outcome)]
    /\ UNCHANGED <<client, DEFAULT_MODEL, probe, fb>>

\* ------------------------------------------------------------- get_suggestions
\* main.py:186-189
suggestions_no_client_response(request) ==
    Response(<<>>, generate_fallback_suggestions(request.query, request.limit), TRUE, <<>>)

\* main.py:216-224
suggestions_completion_response(request, outcome) ==
    IF outcome.kind = "text"
    THEN Response(<<>>,
                  slice_to(stripped_nonempty(split_lines(strip(outcome.text))),
                           request.limit),
                  TRUE, <<>>)
    ELSE Response(<<>>, generate_fallback_suggestions(request.query, request.limit),
                  TRUE, <<>>)

\* The handler up to its remote call (main.py:180-214).
get_suggestions(i, request) ==
    /\ reqs[i].pc = "idle"
    /\ LET resolved == get_ai_client(request.provider, request.api_key)
           ai_client == or_else(resolved, client)
       IN  reqs' = [reqs EXCEPT ![i] =
              IF ai_client = None
              THEN [IdleSlot EXCEPT !.pc = "done", !.req = request,
                                    !.resolved = resolved,
                                    !.result = suggestions_no_client_response(request)]
              ELSE [IdleSlot EXCEPT !.pc = "calling", !.req = request,
                                    !.resolved = resolved, !.ai_client = ai_client,
                                    !.calls = <<Call(ai_client, request.model,
                                                     SuggestionMaxTokens)>>]]
    /\ UNCHANGED <<client, DEFAULT_MODEL, probe, fb>>

\* main.py:216-224
suggestions_completed(i, outcome) ==
    /\ reqs[i].pc = "calling"
    /\ reqs[i].req.op = "get_suggestions"
    /\ reqs' = [reqs EXCEPT ![i].pc = "done", ![i].outcome = outcome,
                            ![i].result = suggestions_completion_response(reqs[i].req, outcome)]
    /\ UNCHANGED <<client, DEFAULT_MODEL, probe, fb>>

\* ------------------------------------------------------------- the rest
\* The response leaves; the handler's locals are gone.
respond(i) ==
    /\ reqs[i].pc = "done"
    /\ reqs' = [reqs EXCEPT ![i] = IdleSlot]
    /\ UNCHANGED <<client, DEFAULT_MODEL, probe, fb>>

\* main.py:89-96
health_check ==
    /\ probe' = [status |-> "healthy", openai_configured |-> (client # None),
                 default_model |-> DEFAULT_MODEL]
    /\ UNCHANGED <<client, DEFAULT_MODEL, reqs, fb>>

\* A direct call of generate_fallback_suggestions on the drawn query and limit.
call_fallback ==
    /\ fb.pc = "input"
    /\ fb' = [fb EXCEPT !.pc = "returned",
                        !.result = generate_fallback_suggestions(fb.query, fb.limit)]
    /\ UNCHANGED <<client, DEFAULT_MODEL, reqs, probe>>

\* ------------------------------------------------------------- specifications
\* Module load (main.py:54-61): the environment may or may not hold
\* OPENAI_API_KEY and DEFAULT_MODEL.
Startup ==
    /\ client \in {None, OpenAI(EnvApiKey, OpenAIBaseUrl)}
    /\ DEFAULT_MODEL \in {"gpt-4", "gpt-4o-mini"}
    /\ probe = NoProbe

\* One request at a time, over the whole input space.
SeqSlots == {1}

Init ==
    /\ Startup
    /\ reqs = [i \in SeqSlots |-> IdleSlot]
    /\ fb = FbOff

Next ==
    \E i \in SeqSlots :
        \/ \E request \in ScriptRequests : generate_script(i, request)
        \/ \E outcome \in ScriptOutcomes : script_completed(i, outcome)
        \/ \E request \in VariationRequests : generate_variation(i, request)
        \/ \E outcome \in ScriptOutcomes : variation_completed(i, outcome)
        \/ \E request \in SuggestionRequests : get_suggestions(i, request)
        \/ \E outcome \in SuggestionOutcomes : suggestions_completed(i, outcome)
        \/ respond(i)
        \/ health_check

Spec == Init /\ [][Next]_vars

\* Several requests in flight at once, over a small input space. A handler is
\* split at its remote call, the one place where another request can run: with
\* one event loop the handlers' blocking calls keep them from overlapping at
\* all, with several workers they overlap, and every such schedule is a
\* behaviour of this specification.
ConcScriptRequests ==
    {r \in ScriptRequests :
        r.provider \in {"openai", "anthropic"} /\ r.model = "gpt-4" /\ r.style = "Formal"}

ConcVariationRequests ==
    {r \in VariationRequests :
        r.provider \in {"openai", "anthropic"} /\ r.model = "gpt-4"
            /\ r.variation_type = "social"}

ConcSuggestionRequests ==
    {r \in SuggestionRequests :
        r.provider \in {"openai", "anthropic"} /\ r.model = "gpt-4"
            /\ r.query = <<"a","p","p">> /\ r.limit = 1}

ConcScriptOutcomes ==
    {Outcome("text", <<"provider script">>, ""), Outcome("raise", <<>>, "Request timed out.")}

ConcSuggestionOutcomes ==
    {Outcome("text", <<"a", "\n", "a">>, ""), Outcome("raise", <<>>, "Request timed out.")}

ConcSlots == 1..NReq

InitConc ==
    /\ Startup
    /\ reqs = [i \in ConcSlots |-> IdleSlot]
    /\ fb = FbOff

NextConc ==
    \E i \in ConcSlots :
        \/ \E request \in ConcScriptRequests : generate_script(i, request)
        \/ \E outcome \in ConcScriptOutcomes : script_completed(i, outcome)
        \/ \E request \in ConcVariationRequests : generate_variation(i, request)
        \/ \E outcome \in ConcScriptOutcomes : variation_completed(i, outcome)
        \/ \E request \in ConcSuggestionRequests : get_suggestions(i, request)
        \/ \E outcome \in ConcSuggestionOutcomes : suggestions_completed(i, outcome)
        \/ respond(i)
        \/ health_check

SpecConc == InitConc /\ [][NextConc]_vars

\* generate_fallback_suggestions alone, over every query and limit.
InitFallback ==
    /\ client = None
    /\ DEFAULT_MODEL = "gpt-4"
    /\ probe = NoProbe
    /\ reqs = <<>>
    /\ fb \in {[pc |-> "input", query |-> q, limit |-> l, result |-> <<>>] :
                  q \in Queries, l \in Limits}

NextFallback == call_fallback

SpecFallback == InitFallback /\ [][NextFallback]_vars
\* ------------------------------------------------------------- properties
Slots == DOMAIN reqs

KnownProviders == {"openai", "openrouter"}

\* The request names a provider the resolver implements and carries a credential.
Resolvable(request) == request.api_key # "" /\ request.provider \in KnownProviders

\* The provider whose endpoint a client targets.
EndpointProvider(cl) == IF cl.base_url = OpenRouterBaseUrl THEN "openrouter" ELSE "openai"

Mentions(message, piece) == \E k \in 1..Len(message) : message[k] = piece

IsPrefix(s, t) == Len(s) <= Len(t) /\ SubSeq(t, 1, Len(s)) = s

Min(a, b) == IF a < b THEN a ELSE b

\* The query, lower-cased, holds no category name and no keyword.
MatchesNothing(query) ==
    \A c \in DOMAIN category_keywords :
        /\ ~contains(lower(query), category_name[c])
        /\ \A k \in category_keywords[c] : ~contains(lower(query), k)

\* C1: a request of any of the three operations that has ended has ended with
\* a response whose success flag is true, whatever the default client, the
\* request's credential and provider, and the remote call's outcome; a handler
\* is never anywhere but before its call, in it, or past its return.
C1_AlwaysSucceeds ==
    \A i \in Slots :
        /\ reqs[i].pc \in {"idle", "calling", "done"}
        /\ reqs[i].pc = "done" => reqs[i].result.success = TRUE

\* A generate_script request whose remote call raised has ended.
C1_Witness ==
    \E i \in Slots :
        /\ reqs[i].pc = "done"
        /\ reqs[i].req.op = "generate_script"
        /\ reqs[i].outcome.kind = "raise"
        /\ reqs[i].result.success = TRUE

\* C2 (as claimed): for a query that holds a category name and a limit >= 1,
\* the fallback suggestions are the first min(limit, 6) items of the list of
\* the first category, in declaration order, whose name the query holds.
C2_NamePassFirst ==
    fb.pc = "returned" /\ fb.limit >= 1 =>
        \A j \in 1..Len(Categories) :
            (/\ contains(lower(fb.query), category_name[Categories[j]])
             /\ \A h \in 1..(j - 1) :
                    ~contains(lower(fb.query), category_name[Categories[h]]))
            => fb.result = SubSeq(suggestions_db[Categories[j]], 1, Min(fb.limit, 6))

\* C3 (as claimed): in each operation, a request with a credential and a known
\* provider has its remote call made, with the client built from that
\* credential and provider and with the request's model.
C3_RequestClientUsed ==
    \A i \in Slots :
        reqs[i].pc \in {"calling", "done"} /\ Resolvable(reqs[i].req) =>
            /\ reqs[i].calls # <<>>
            /\ reqs[i].calls[1].client.api_key = reqs[i].req.api_key
            /\ EndpointProvider(reqs[i].calls[1].client) = reqs[i].req.provider
            /\ reqs[i].calls[1].model = reqs[i].req.model

\* C4: a generate_script request whose remote call raised, or gave a response
\* with no text to read, ends with success, with the mock script of its style
\* (the script the no-client path returns for it), and with a message that
\* holds the failure's description.
C4_FailureFallsBackToMock ==
    \A i \in Slots :
        (/\ reqs[i].pc = "done"
         /\ reqs[i].req.op = "generate_script"
         /\ reqs[i].calls # <<>>
         /\ reqs[i].outcome.kind # "text")
        => /\ reqs[i].result.success = TRUE
           /\ reqs[i].result.script = generate_mock_script(reqs[i].req)
           /\ reqs[i].result.script = script_no_client_response(reqs[i].req).script
           /\ reqs[i].outcome.kind = "raise"
                 => Mentions(reqs[i].result.message, reqs[i].outcome.err)
           /\ reqs[i].outcome.kind = "no_choices"
                 => Mentions(reqs[i].result.message, "list index out of range")
           /\ reqs[i].outcome.kind = "null_content"
                 => Mentions(reqs[i].result.message, "1 validation error for ScriptResponse")

\* A generate_script request in a style other than the default one, whose
\* remote call raised, has ended.
C4_Witness ==
    \E i \in Slots :
        /\ reqs[i].pc = "done"
        /\ reqs[i].req.op = "generate_script"
        /\ reqs[i].req.style = "Formal"
        /\ reqs[i].outcome.kind = "raise"
        /\ reqs[i].result.script = generate_mock_script(reqs[i].req)

\* C5 (as claimed): a generate_script or generate_variation response that
\* carries provider text has a message naming the provider whose endpoint the
\* called client targets, and the model the call was made with.
C5_MessageNamesProducer ==
    \A i \in Slots :
        (/\ reqs[i].pc = "done"
         /\ reqs[i].req.op \in {"generate_script", "generate_variation"}
         /\ reqs[i].outcome.kind = "text")
        => /\ Mentions(reqs[i].result.message, EndpointProvider(reqs[i].calls[1].client))
           /\ Mentions(reqs[i].result.message, reqs[i].calls[1].model)

\* C6: get_ai_client gives a client exactly for a non-empty credential with
\* provider "openai" or "openrouter", and that client carries the credential
\* and targets the provider's endpoint; it gives None for an empty credential
\* and for every other provider.
C6_ResolverDomain ==
    \A i \in Slots :
        reqs[i].req.op \in {"generate_script", "get_suggestions"} =>
            /\ reqs[i].resolved # None <=> Resolvable(reqs[i].req)
            /\ reqs[i].resolved # None =>
                  /\ reqs[i].resolved.api_key = reqs[i].req.api_key
                  /\ EndpointProvider(reqs[i].resolved) = reqs[i].req.provider

\* A request naming the reserved provider google, with a credential, has been
\* resolved to None.
C6_Witness ==
    \E i \in Slots :
        /\ reqs[i].pc # "idle"
        /\ reqs[i].req.op = "get_suggestions"
        /\ reqs[i].req.provider = "google"
        /\ reqs[i].req.api_key # ""
        /\ reqs[i].resolved = None

\* C7 (as claimed): a get_suggestions response holds at most limit
\* suggestions, and on the fallback path exactly min(limit, 6).
C7_AtMostLimit ==
    \A i \in Slots :
        reqs[i].pc = "done" /\ reqs[i].req.op = "get_suggestions" =>
            /\ Len(reqs[i].result.suggestions) <= reqs[i].req.limit
            /\ reqs[i].outcome.kind # "text" =>
                  Len(reqs[i].result.suggestions) = Min(reqs[i].req.limit, 6)

\* C8: a query that holds no category name and no keyword gets a prefix of the
\* general list, cut at limit; every other query gets the list of a category
\* that it matches, cut at limit, which is no prefix of the general list
\* unless it is empty.
C8_GeneralOnlyWhenNoMatch ==
    fb.pc = "returned" =>
        /\ MatchesNothing(fb.query) =>
              /\ IsPrefix(fb.result, general_suggestions)
              /\ fb.result = slice_to(general_suggestions, fb.limit)
        /\ ~MatchesNothing(fb.query) =>
              /\ \E c \in DOMAIN suggestions_db :
                    /\ fb.result = slice_to(suggestions_db[c], fb.limit)
                    /\ \/ contains(lower(fb.query), category_name[c])
                       \/ \E k \in category_keywords[c] : contains(lower(fb.query), k)
              /\ fb.result # <<>> => ~IsPrefix(fb.result, general_suggestions)

\* The call returned the whole general list for a query matching nothing.
C8_Witness ==
    /\ fb.pc = "returned"
    /\ fb.query = <<"i","n","t","r","o">>
    /\ MatchesNothing(fb.query)
    /\ fb.result = general_suggestions

\* C9: a request makes at most one remote call; with no client to be had (the
\* request resolves to none and there is no default client) it makes none and
\* ends on mock content, with the message of generate_script and
\* generate_variation saying that no API key was provided.
C9_AtMostOneCall ==
    \A i \in Slots :
        /\ Len(reqs[i].calls) <= 1
        /\ (reqs[i].pc # "idle" /\ ~Resolvable(reqs[i].req) /\ client = None) =>
              /\ reqs[i].pc = "done"
              /\ reqs[i].calls = <<>>
              /\ reqs[i].outcome = NoOutcome
              /\ reqs[i].req.op = "generate_script" =>
                    /\ reqs[i].result.script = generate_mock_script(reqs[i].req)
                    /\ reqs[i].result.message =
                           <<"Generated using mock data (no API key provided)">>
              /\ reqs[i].req.op = "generate_variation" =>
                    /\ reqs[i].result.script =
                           generate_mock_variation(reqs[i].req.variation_type)
                    /\ reqs[i].result.message =
                           <<"Generated using mock data (no OpenAI API key provided)">>
              /\ reqs[i].req.op = "get_suggestions" =>
                    reqs[i].result.suggestions =
                        generate_fallback_suggestions(reqs[i].req.query, reqs[i].req.limit)

\* A generate_script request ended without a call, there being no client.
C9_Witness ==
    \E i \in Slots :
        /\ client = None
        /\ reqs[i].pc = "done"
        /\ reqs[i].req.op = "generate_script"
        /\ ~Resolvable(reqs[i].req)
        /\ reqs[i].calls = <<>>

\* C10: whatever requests are in flight and however they end, no step changes
\* the default client or the default model, a health probe answers what the
\* probe before it answered, and two requests with the same input and the same
\* remote outcome end with the same response.
C10_DefaultsFrozen ==
    /\ [][/\ client' = client
          /\ DEFAULT_MODEL' = DEFAULT_MODEL
          /\ probe # NoProbe => probe' = probe]_vars
    /\ [](\A i, j \in Slots :
             (/\ reqs[i].pc = "done" /\ reqs[j].pc = "done"
              /\ reqs[i].req = reqs[j].req
              /\ reqs[i].outcome = reqs[j].outcome)
             => reqs[i].result = reqs[j].result)

\* The probe has answered while one request has ended on a provider failure
\* and another is in its remote call.
C10_Witness ==
    /\ probe # NoProbe
    /\ \E i, j \in Slots :
          /\ i # j
          /\ reqs[i].pc = "done" /\ reqs[i].outcome.kind = "raise"
          /\ reqs[j].pc = "calling"
====
